---- MODULE Spec2Model ----
(***************************************************************************)
(* A model of src/src/lib.rs: the generic genetic optimizer Genetic<T>.    *)
(*                                                                         *)
(* Agents are integers.  Probabilities and the uniform draws of            *)
(* rng.gen_range(0.0, 1.0) are in hundredths (pc = 100 is 1.0; a draw is   *)
(* at most 99 because the range is half open).  Indices are 0-based as in  *)
(* the source, so the agent at index i of a vector u is u[i + 1].          *)
(***************************************************************************)
EXTENDS Integers, Sequences, FiniteSets

\* ------------------------------------------------------------- bounds ----
\* Largest population size of a configuration.
MaxPop == 2
\* Largest max_generation of a configuration.
MaxGen == 2
\* Agents of the convergence kit are 0..MaxAgent.
MaxAgent == 1
\* Agents of the table kit are 0..MaxTableAgent.
MaxTableAgent == 2
\* Fitness values of the table kit are 0..MaxFit.
MaxFit == 1

\* ------------------------------------------------- program constants ----
\* tests::correct_mutation
MutationAgent == 123
MutationPop == 10
\* tests::correct_crossover
CrossoverAgent == 121
CrossoverPop == 2
CrossoverTarget == 244

\* ------------------------------------------------------- the inputs ----
\* Values of pc and pm: inside [0,1] and, unvalidated by the code, outside.
ValidProbs == {0, 50, 100}
Probs == ValidProbs \cup {-50, 150}
\* Values rng.gen_range(0.0, 1.0) may return.
RandVals == {0, 50, 99}

\* The caller-supplied operators come in kits: the closures of the tests
\* correct_mutation, correct_crossover and convergence (the last on a grid
\* of 0.01, its fitness 5 - a*a in units of 0.0001), and "table": a fitness
\* given by an arbitrary table over the agents 0..MaxTableAgent, and a
\* mutation and a crossover that step to the next agent (cyclically; the
\* crossover steps from its first parent).
ConvergenceAgents == 0 .. MaxAgent
TableAgents == 0 .. MaxTableAgent
FitTables == [TableAgents -> 0 .. MaxFit]
NoTable == [a \in TableAgents |-> 0]

Abs(n) == IF n < 0 THEN -n ELSE n

\* get_random_agent: the values one call may return.
get_random_agent(c) ==
    CASE c.kit = "mutation" -> {MutationAgent}
      [] c.kit = "crossover" -> {CrossoverAgent}
      [] c.kit = "convergence" -> ConvergenceAgents
      [] OTHER -> TableAgents

\* f_fitness(&a).
f_fitness(c, a) ==
    CASE c.kit = "mutation" -> 1
      [] c.kit = "crossover" -> 10 - Abs(a - CrossoverTarget)
      [] c.kit = "convergence" -> 50000 - a * a
      [] OTHER -> c.table[a]

\* f_mutate(&a): the values one call may return.  The convergence kit adds a
\* draw of gen_range(-0.01, 0.01); the kit fixes that draw to the lower end
\* of the range, one grid step down.
f_mutate(c, a) ==
    CASE c.kit = "mutation" -> {a + 1}
      [] c.kit = "crossover" -> {a + 2}
      [] c.kit = "convergence" -> {a - 1}
      [] OTHER -> {(a + 1) % (MaxTableAgent + 1)}

\* f_offspring(&a, &b).
f_offspring(c, a, b) ==
    CASE c.kit = "mutation" -> (a + b) \div 2
      [] c.kit = "crossover" -> a + b
      [] c.kit = "convergence" -> (a + b) \div 2
      [] OTHER -> (a + 1) % (MaxTableAgent + 1)

\* The documented ranges of the configuration: pc and pm in [0,1]; the
\* specification adds population >= 1.
ValidConfig(c) == c.population >= 1 /\ c.pc \in ValidProbs /\ c.pm \in ValidProbs

\* ------------------------------------------------- pure functions ----
\* A mutant of Better: `>=`, so that a later agent of equal fitness wins.
BetterOrEqual(f_x, f_best) == f_x >= f_best

\* `if f_x > f_best` of get_best.
Better(f_x, f_best) == f_x > f_best

RECURSIVE get_best_loop(_, _, _, _, _)
get_best_loop(c, u, i, best_i, f_best) ==
    IF i >= Len(u) THEN best_i
    ELSE LET f_x == f_fitness(c, u[i + 1])
         IN  IF Better(f_x, f_best)
             THEN get_best_loop(c, u, i + 1, i, f_x)
             ELSE get_best_loop(c, u, i + 1, best_i, f_best)

\* get_best(&u) for a non-empty u (u[0] panics on an empty one: see the
\* actions that call it).
get_best(c, u) == get_best_loop(c, u, 0, 0, f_fitness(c, u[1]))

\* A mutant of Remove: Vec::swap_remove(i), which fills the hole with the
\* last element instead of shifting.
SwapRemove(u, i) ==
    IF i + 1 = Len(u) THEN SubSeq(u, 1, Len(u) - 1)
    ELSE [SubSeq(u, 1, Len(u) - 1) EXCEPT ![i + 1] = u[Len(u)]]

\* Vec::remove(i): the vector without the element at index i.
Remove(u, i) == SubSeq(u, 1, i) \o SubSeq(u, i + 2, Len(u))

\* A mutant of SelectionRounds: a loop that stops one round early.
SelectionRoundsShort(c) == c.population - 1

\* The number of rounds of selection's loop, `0..self.population`.
SelectionRounds(c) == c.population

RECURSIVE selection_loop(_, _, _, _)
selection_loop(c, pool, i, new_generation) ==
    IF i >= SelectionRounds(c) THEN new_generation
    ELSE LET best_i == get_best(c, pool)
         IN  selection_loop(c, Remove(pool, best_i), i + 1,
                            Append(new_generation, pool[best_i + 1]))

\* selection(&mut xg) for a pool of at least `population` agents.
selection(c, pool) == selection_loop(c, pool, 0, <<>>)

\* A mutant of DoCrossover: the comparison inverted.
DoCrossoverInverted(r, pc) == r >= pc

\* `if rng.gen_range(0.0, 1.0) < self.pc` of run.
DoCrossover(r, pc) == r < pc

\* Mutants of KeepUnmutated: the comparison inverted; the early return lost.
KeepUnmutatedInverted(r, pm) == r < pm
KeepUnmutatedNever(r, pm) == FALSE

\* `if rng.gen_range(0.0, 1.0) >= self.pm { return x.clone(); }` of mutate.
KeepUnmutated(r, pm) == r >= pm

\* `while y == x` of generate_parents.
Rejected(x, y) == y = x

\* What the crossover loop starts from: `xg.clone()`.
WorkingCopy(gen) == gen

\* A mutant of MoreGenerations: the inclusive range `0..=max_generation`.
MoreGenerationsInclusive(c, done) == done <= c.max_generation

\* `for _g in 0..self.max_generation`: whether another generation runs.
MoreGenerations(c, done) == done < c.max_generation

\* ----------------------------------------------------------- state ----
VARIABLES
    cfg,         \* the Genetic struct: population, max_generation, pc, pm, operators
    stage,       \* where run() (or its caller) is
    g,           \* generations begun
    xg,          \* run's xg
    p,           \* generate_parents' p: the partners chosen so far (referents)
    px, py,      \* generate_parents' locals x and y (-1 outside the closure)
    population,  \* run's working population
    k,           \* pairs consumed by the crossover loop
    mutated,     \* mutate's output so far
    best,        \* the caller's get_best(&simul) (-1 before)
    nAgents,     \* calls of get_random_agent
    invoked      \* which of f_fitness, f_mutate, f_offspring were called

vars == <<cfg, stage, g, xg, p, px, py, population, k, mutated, best, nAgents, invoked>>

\* The configurations of Spec: every small one, valid or not, and the one of
\* tests::correct_mutation (and of run's first example) for every pc in [0,1].
SmallConfigs ==
    [population : 0 .. MaxPop, max_generation : 0 .. MaxGen, pc : Probs, pm : Probs,
     kit : {"mutation", "crossover", "convergence"}, table : {NoTable}]

MutationTestConfigs ==
    [population : {MutationPop}, max_generation : {1}, pc : ValidProbs, pm : {100},
     kit : {"mutation"}, table : {NoTable}]

\* tests::correct_crossover.
CrossoverTestConfig ==
    [population |-> CrossoverPop, max_generation |-> 1, pc |-> 100, pm |-> 100,
     kit |-> "crossover", table |-> NoTable]

Configs == SmallConfigs \cup MutationTestConfigs \cup {CrossoverTestConfig}

\* The configurations of SpecTable: the table kit with every fitness table;
\* no generation (and a population of up to MaxPop + 1) or one.
TableConfigs ==
    {c \in [population : 1 .. MaxPop + 1, max_generation : 0 .. 1, pc : {50}, pm : {0, 100},
            kit : {"table"}, table : FitTables] :
        c.max_generation = 1 => c.population <= MaxPop}

Fresh ==
    /\ stage = "init"
    /\ g = 0
    /\ xg = <<>>
    /\ p = <<>>
    /\ px = -1
    /\ py = -1
    /\ population = <<>>
    /\ k = 0
    /\ mutated = <<>>
    /\ best = -1
    /\ nAgents = 0
    /\ invoked = {}

Init == cfg \in Configs /\ Fresh

\* ---------------------------------------------------------- actions ----
\* get_population: one call of get_random_agent per element.
GetPopulationStep ==
    /\ stage = "init"
    /\ Len(xg) < cfg.population
    /\ \E a \in get_random_agent(cfg) : xg' = Append(xg, a)
    /\ nAgents' = nAgents + 1
    /\ UNCHANGED <<cfg, stage, g, p, px, py, population, k, mutated, best, invoked>>

GetPopulationDone ==
    /\ stage = "init"
    /\ Len(xg) = cfg.population
    /\ stage' = "loop"
    /\ UNCHANGED <<cfg, g, xg, p, px, py, population, k, mutated, best, nAgents, invoked>>

\* `for _g in 0..self.max_generation`: another generation.
BeginGeneration ==
    /\ stage = "loop"
    /\ MoreGenerations(cfg, g)
    /\ g' = g + 1
    /\ stage' = "parents"
    /\ p' = <<>>
    /\ UNCHANGED <<cfg, xg, px, py, population, k, mutated, best, nAgents, invoked>>

\* The loop is over: run returns xg.
Return ==
    /\ stage = "loop"
    /\ ~MoreGenerations(cfg, g)
    /\ stage' = "done"
    /\ UNCHANGED <<cfg, g, xg, p, px, py, population, k, mutated, best, nAgents, invoked>>

\* generate_parents, the closure for the next element of xg: draws x and y.
DrawParent ==
    /\ stage = "parents"
    /\ Len(p) < Len(xg)
    /\ \E x \in 0 .. Len(xg) - 1, y \in 0 .. Len(xg) - 1 :
          /\ px' = x
          /\ py' = y
          /\ IF Rejected(x, y)
             THEN stage' = "resample" /\ p' = p
             ELSE stage' = "parents" /\ p' = Append(p, xg[y + 1])
    /\ UNCHANGED <<cfg, g, xg, population, k, mutated, best, nAgents, invoked>>

\* generate_parents, `while y == x { y = rng.gen_range(0, l); }`.
Resample ==
    /\ stage = "resample"
    /\ \E y \in 0 .. Len(xg) - 1 :
          /\ py' = y
          /\ IF Rejected(px, y)
             THEN stage' = "resample" /\ p' = p
             ELSE stage' = "parents" /\ p' = Append(p, xg[y + 1])
    /\ UNCHANGED <<cfg, g, xg, px, population, k, mutated, best, nAgents, invoked>>

\* generate_parents returns; run clones xg into the working population.
ParentsDone ==
    /\ stage = "parents"
    /\ Len(p) = Len(xg)
    /\ stage' = "crossover"
    /\ population' = WorkingCopy(xg)
    /\ k' = 0
    /\ px' = -1
    /\ py' = -1
    /\ UNCHANGED <<cfg, g, xg, p, mutated, best, nAgents, invoked>>

\* run, `for (a, b) in parents`: one pair.  (When the loop ends, parents is
\* dead: CrossoverDone drops it.)
CrossoverStep ==
    /\ stage = "crossover"
    /\ k < Len(p)
    /\ \E r \in RandVals :
          IF DoCrossover(r, cfg.pc)
          THEN /\ population' = Append(population, f_offspring(cfg, xg[k + 1], p[k + 1]))
               /\ invoked' = invoked \cup {"f_offspring"}
          ELSE /\ population' = population
               /\ invoked' = invoked
    /\ k' = k + 1
    /\ UNCHANGED <<cfg, stage, g, xg, p, px, py, mutated, best, nAgents>>

CrossoverDone ==
    /\ stage = "crossover"
    /\ k = Len(p)
    /\ stage' = "mutate"
    /\ mutated' = <<>>
    /\ p' = <<>>
    /\ k' = 0
    /\ UNCHANGED <<cfg, g, xg, px, py, population, best, nAgents, invoked>>

\* mutate, the closure for the next member of the working population.  (When
\* mutate returns, the working population is dead: MutateDone drops it.)
MutateStep ==
    /\ stage = "mutate"
    /\ Len(mutated) < Len(population)
    /\ LET x == population[Len(mutated) + 1]
       IN  \E r \in RandVals :
              IF KeepUnmutated(r, cfg.pm)
              THEN /\ mutated' = Append(mutated, x)
                   /\ invoked' = invoked
              ELSE /\ \E m \in f_mutate(cfg, x) : mutated' = Append(mutated, m)
                   /\ invoked' = invoked \cup {"f_mutate"}
    /\ UNCHANGED <<cfg, stage, g, xg, p, px, py, population, k, best, nAgents>>

MutateDone ==
    /\ stage = "mutate"
    /\ Len(mutated) = Len(population)
    /\ stage' = "select"
    /\ population' = <<>>
    /\ UNCHANGED <<cfg, g, xg, p, px, py, k, mutated, best, nAgents, invoked>>

\* `xg = self.selection(&mut mutated)`, the end of a generation; mutated
\* goes out of scope.
Select ==
    /\ stage = "select"
    /\ IF Len(mutated) < SelectionRounds(cfg)
       THEN stage' = "panic" /\ xg' = xg
       ELSE stage' = "loop" /\ xg' = selection(cfg, mutated)
    /\ invoked' = IF SelectionRounds(cfg) > 0 THEN invoked \cup {"f_fitness"} ELSE invoked
    /\ mutated' = <<>>
    /\ UNCHANGED <<cfg, g, p, px, py, population, k, best, nAgents>>

\* The caller's `test.get_best(&simul)` on what run returned.
GetBestOfResult ==
    /\ stage = "done"
    /\ IF Len(xg) = 0
       THEN stage' = "panic" /\ best' = best /\ invoked' = invoked
       ELSE /\ stage' = "best"
            /\ best' = get_best(cfg, xg)
            /\ invoked' = invoked \cup {"f_fitness"}
    /\ UNCHANGED <<cfg, g, xg, p, px, py, population, k, mutated, nAgents>>

Next ==
    \/ GetPopulationStep
    \/ GetPopulationDone
    \/ BeginGeneration
    \/ Return
    \/ DrawParent
    \/ Resample
    \/ ParentsDone
    \/ CrossoverStep
    \/ CrossoverDone
    \/ MutateStep
    \/ MutateDone
    \/ Select
    \/ GetBestOfResult

Spec == Init /\ [][Next]_vars

\* The program is sequential and never waits: it takes its next step; and a
\* fair random source does not answer the resampling loop of generate_parents
\* with the rejected draw forever (a rejected draw leaves the state as it is,
\* so weak fairness of the steps that change the state says both).
FairSpec == Init /\ [][Next]_vars /\ WF_vars(Next)

\* Runs with a fitness given by an arbitrary table.
InitTable == cfg \in TableConfigs /\ Fresh

SpecTable == InitTable /\ [][Next]_vars


\* =========================================================== claims ====
N == cfg.population
Range(u) == {u[i] : i \in 1 .. Len(u)}
Count(u, a) == Cardinality({i \in 1 .. Len(u) : u[i] = a})
Fit(a) == f_fitness(cfg, a)
InGeneration == stage \in {"parents", "resample", "crossover", "mutate", "select"}

\* ---------------------------------------------------------------- C1 ----
\* C1: with population = N >= 1 and pc, pm in [0,1], xg holds exactly N agents
\* at the start and at the end of every generation (and whenever run is past
\* get_population, also when it returns); the working population has between
\* N and 2N agents after the crossover stage and after the mutation stage;
\* selection never runs out of agents.
C1_Lengths ==
    ValidConfig(cfg) =>
        /\ stage # "init" => Len(xg) = N
        /\ stage = "init" => Len(xg) <= N
        /\ stage = "crossover" => Len(population) >= N /\ Len(population) <= N + k /\ k <= N
        /\ stage = "mutate" => Len(population) >= N /\ Len(population) <= 2 * N
        /\ stage = "select" => Len(mutated) >= N /\ Len(mutated) <= 2 * N
        /\ stage # "panic"

\* A second generation whose working population reached 2N, about to be cut.
C1_Witness ==
    /\ ValidConfig(cfg)
    /\ N = MaxPop
    /\ g = 2
    /\ stage = "select"
    /\ Len(mutated) = 2 * N

\* ---------------------------------------------------------------- C4 ----
\* C4: with max_generation = 0, run returns after exactly N calls of
\* get_random_agent and no call of f_offspring, f_mutate or f_fitness; each
\* call's agent is appended after the earlier ones, and once the population
\* is built no step of run adds, replaces, removes or reorders an agent.
C4_Returned ==
    (cfg.max_generation = 0 /\ stage = "done") =>
        /\ nAgents = N
        /\ Len(xg) = N
        /\ invoked = {}
        /\ g = 0

C4_Step ==
    (cfg.max_generation = 0 /\ stage # "done" /\ stage # "best") =>
        \/ /\ stage = "init"
           /\ stage' = "init"
           /\ Len(xg') = Len(xg) + 1
           /\ SubSeq(xg', 1, Len(xg)) = xg
           /\ xg'[Len(xg')] \in get_random_agent(cfg)
           /\ nAgents' = nAgents + 1
        \/ /\ stage' \in {"loop", "done"}
           /\ xg' = xg
           /\ nAgents' = nAgents

\* C4: what a run with max_generation = 0 returns (C4_Returned) and how it
\* gets there (C4_Step).
C4_ZeroGenerations == [](C4_Returned) /\ [][C4_Step]_vars

\* A run without generations that returned two different agents in the order
\* they were generated.
C4_Witness ==
    /\ cfg.max_generation = 0
    /\ stage = "done"
    /\ N = 2
    /\ xg = <<1, 0>>

\* ---------------------------------------------------------------- C5 ----
\* C5: a configuration with population = 0, or with pc or pm outside [0,1],
\* never gets into a generation and never returns a population.
C5_ConfigurationError ==
    ~ValidConfig(cfg) => ~InGeneration /\ stage \notin {"done", "best"}

\* ---------------------------------------------------------------- C8 ----
\* C8: for a generation of N >= 2 agents generate_parents produces N pairs;
\* the partner of the agent at position x is the agent at an index y with
\* 0 <= y < N and y # x.
C8_NoSelfPairing ==
    /\ (stage = "parents" /\ Len(p) >= 1 /\ Len(xg) >= 2) =>
          /\ py \in 0 .. Len(xg) - 1
          /\ p[Len(p)] = xg[py + 1]
          /\ py # Len(p) - 1
    /\ (stage = "crossover" /\ Len(xg) >= 2) => Len(p) = Len(xg)

\* ---------------------------------------------------------------- C6 ----
\* C6: with pm = 1.0 every member of the working population, offspring
\* included, is replaced by its mutation; so after one generation every
\* returned agent is the mutation of an initial agent or of an offspring of
\* two initial agents; and the run of tests::correct_mutation, for any pc in
\* [0,1], returns ten agents that all are 124.
OneGenerationImages ==
    LET gen0 == get_random_agent(cfg)
        pool == gen0 \cup {f_offspring(cfg, a, b) : a \in gen0, b \in gen0}
    IN  UNION {f_mutate(cfg, a) : a \in pool}

C6_FullMutation ==
    /\ (ValidConfig(cfg) /\ cfg.pm = 100 /\ stage = "mutate") =>
          /\ "f_mutate" \in invoked \/ Len(mutated) = 0
          /\ \A i \in 1 .. Len(mutated) : mutated[i] \in f_mutate(cfg, population[i])
    /\ (ValidConfig(cfg) /\ cfg.pm = 100 /\ stage = "done" /\ g = 1) =>
          \A i \in 1 .. Len(xg) : xg[i] \in OneGenerationImages
    /\ (cfg \in MutationTestConfigs /\ stage = "done") =>
          /\ Len(xg) = MutationPop
          /\ \A i \in 1 .. Len(xg) : xg[i] = MutationAgent + 1

\* tests::correct_mutation itself (pc = 0.5) has returned, with 124 first.
C6_Witness ==
    /\ cfg \in MutationTestConfigs
    /\ cfg.pc = 50
    /\ stage = "done"
    /\ xg[1] = 124

\* ---------------------------------------------------------------- C7 ----
\* C7: with pc = 1.0 every pair adds its offspring after the N unchanged
\* parents, so that the mutation stage and selection see 2N agents; and every
\* run of tests::correct_crossover that returns has 244 at index 0 of the
\* result and at the index get_best gives.
C7_FullCrossover ==
    /\ (ValidConfig(cfg) /\ cfg.pc = 100 /\ stage = "crossover") =>
          /\ Len(population) = N + k
          /\ SubSeq(population, 1, N) = xg
          /\ \A i \in 1 .. k : population[N + i] = f_offspring(cfg, xg[i], p[i])
    /\ (ValidConfig(cfg) /\ cfg.pc = 100 /\ stage = "mutate") =>
          /\ Len(population) = 2 * N
          /\ SubSeq(population, 1, N) = xg
    /\ (ValidConfig(cfg) /\ cfg.pc = 100 /\ stage = "select") => Len(mutated) = 2 * N
    /\ (cfg = CrossoverTestConfig /\ stage \in {"done", "best"}) => xg[1] = CrossoverTarget
    /\ (cfg = CrossoverTestConfig /\ stage = "best") => xg[best + 1] = CrossoverTarget

\* tests::correct_crossover has returned and its caller asked for the best.
C7_Witness ==
    /\ cfg = CrossoverTestConfig
    /\ stage = "best"
    /\ xg = <<244, 244>>
    /\ best = 0

\* --------------------------------------------------------------- C10 ----
MaxFitness(u) ==
    CHOOSE m \in {Fit(u[i]) : i \in 1 .. Len(u)} : \A j \in 1 .. Len(u) : m >= Fit(u[j])

NoMutation == cfg.pm = 0 /\ cfg.pc \in ValidProbs /\ N >= 1

\* The offspring in the pool (the agents after the N parents) fitter than a.
FitterOffspring(pool, a) == {j \in N + 1 .. Len(pool) : Fit(pool[j]) > Fit(a)}

\* C10, as claimed: with pm = 0, pc in [0,1] and population >= 1, the greatest
\* fitness of the generation selection produces is at least that of the
\* generation before, and the best agent of the generation before is in it.
C10_OriginalStep ==
    (NoMutation /\ stage = "select") =>
        /\ MaxFitness(xg') >= MaxFitness(xg)
        /\ xg[get_best(cfg, xg) + 1] \in Range(xg')

\* C10 as claimed, of every step of a run.
C10_Original == [][C10_OriginalStep]_vars

\* C10, amended: with pm = 0, pc in [0,1] and population >= 1, the greatest
\* fitness of the generation selection produces is at least that of the
\* generation before; the best agent of the generation before is in it
\* whenever fewer than N offspring are fitter than that agent.
C10_Step ==
    (NoMutation /\ stage = "select") =>
        /\ stage' = "loop"
        /\ MaxFitness(xg') >= MaxFitness(xg)
        /\ LET a == xg[get_best(cfg, xg) + 1]
           IN  Cardinality(FitterOffspring(mutated, a)) < N => a \in Range(xg')

\* C10 as amended, of every step of a run.
C10_Elitism == [][C10_Step]_vars

\* The second generation's selection, from a pool in which one offspring,
\* and no more, is fitter than the best agent of the generation before.
C10_Witness ==
    /\ NoMutation
    /\ N = 2
    /\ g = 2
    /\ stage = "select"
    /\ Cardinality(FitterOffspring(mutated, xg[get_best(cfg, xg) + 1])) = 1

\* ---------------------------------------------------------------- C3 ----
\* C3: with population >= 1 and pc, pm in [0,1], run eventually returns.
C3_Terminates == (ValidConfig(cfg) /\ stage = "init") ~> (stage = "done")

\* ---------------------------------------------------------------- C2 ----
\* C2: on a non-empty sequence get_best returns a valid index of an agent of
\* greatest fitness, the smallest such index.
C2_FirstMaximum ==
    stage = "best" =>
        /\ best >= 0
        /\ best < Len(xg)
        /\ \A j \in 1 .. Len(xg) : Fit(xg[best + 1]) >= Fit(xg[j])
        /\ \A j \in 1 .. best : Fit(xg[j]) < Fit(xg[best + 1])

\* get_best passed a worse agent and kept the first of two equal best ones.
C2_Witness ==
    /\ stage = "best"
    /\ best = 1
    /\ \E j \in 3 .. Len(xg) : Fit(xg[j]) = Fit(xg[2]) /\ xg[j] # xg[2]
    /\ Fit(xg[1]) < Fit(xg[2])

\* ---------------------------------------------------------------- C9 ----
\* C9: from a pool W of N to 2N agents selection returns the first N agents
\* of the stable descending sort of W by fitness: in non-increasing fitness,
\* agents of equal fitness in the order of their positions in W, no agent
\* more often than in W, and none of the agents left out fitter than one
\* returned.
\* The place of W[i] in the stable descending sort of W.
Rank(W, i) ==
    1 + Cardinality({j \in 1 .. Len(W) :
                        \/ Fit(W[j]) > Fit(W[i])
                        \/ Fit(W[j]) = Fit(W[i]) /\ j < i})

StableTop(W, n) == [r \in 1 .. n |-> W[CHOOSE i \in 1 .. Len(W) : Rank(W, i) = r]]

C9_Step ==
    (stage = "select" /\ Len(mutated) >= N) =>
        /\ xg' = StableTop(mutated, N)
        /\ \A i \in 1 .. Len(xg') - 1 : Fit(xg'[i]) >= Fit(xg'[i + 1])
        /\ \A a \in Range(xg') : Count(xg', a) <= Count(mutated, a)

\* C9, of every step of a run: each selection is the stable truncation.
C9_StableTruncation == [][C9_Step]_vars

\* A full pool of 2N agents, not in order, with different agents of equal
\* fitness.
C9_Witness ==
    /\ stage = "select"
    /\ N = 2
    /\ Len(mutated) = 2 * N
    /\ Fit(mutated[1]) < Fit(mutated[2])
    /\ \E i, j \in 1 .. Len(mutated) :
          i < j /\ mutated[i] # mutated[j] /\ Fit(mutated[i]) = Fit(mutated[j])
====
